---- MODULE Spec2Model ----
(***************************************************************************)
(* Model of the type generated by the new_bitflags! macro (src/lib.rs).    *)
(* A flag-set value is the integer it wraps; the declaration is the        *)
(* ordered list of (name, value) pairs handed to the macro.                *)
(***************************************************************************)
EXTENDS Integers, Sequences, FiniteSets

\* Width of the backing integer type ($inner), in bits.
Width == 2
\* Largest number of flags in a declaration.
MaxFlags == 2
\* Largest number of elements of an iterator given to extend / from_iter.
MaxIter == 2

VARIABLES flags, self, op, old, arg, ret, out, iter

vars == <<flags, self, op, old, arg, ret, out, iter>>

----------------------------------------------------------------------------
(* The primitive integer operations of the backing type.                   *)

RECURSIVE Pow2(_)
Pow2(n) == IF n = 0 THEN 1 ELSE 2 * Pow2(n - 1)

\* Largest value of the backing type (all Width bits set).
MaxInner == Pow2(Width) - 1

\* Every value of the backing type.
Inner == 0 .. MaxInner

RECURSIVE IntAnd(_, _)
IntAnd(a, b) ==
    IF a = 0 \/ b = 0 THEN 0
    ELSE (a % 2) * (b % 2) + 2 * IntAnd(a \div 2, b \div 2)

RECURSIVE IntOr(_, _)
IntOr(a, b) ==
    IF a = 0 THEN b
    ELSE IF b = 0 THEN a
    ELSE (IF a % 2 = 1 \/ b % 2 = 1 THEN 1 ELSE 0) + 2 * IntOr(a \div 2, b \div 2)

RECURSIVE IntXor(_, _)
IntXor(a, b) ==
    IF a = 0 THEN b
    ELSE IF b = 0 THEN a
    ELSE (IF a % 2 = b % 2 THEN 0 ELSE 1) + 2 * IntXor(a \div 2, b \div 2)

\* `!x` on an unsigned integer of Width bits flips every bit of the width.
IntNot(a) == MaxInner - a

----------------------------------------------------------------------------
(* The declaration: $( const $flag = $value ; )*                           *)

\* stringify!($name)
TypeName == "Foo"

\* stringify!($flag) of the i-th declared flag; identifiers are distinct.
FlagNames == <<"alpha", "beta", "gamma", "delta", "epsilon", "zeta">>

\* Every declaration of n flags: names by position, values of the backing type.
Declarations(n) ==
    { [i \in 1 .. n |-> [name |-> FlagNames[i], value |-> vs[i]]] :
        vs \in [1 .. n -> Inner] }

----------------------------------------------------------------------------
(* The generated methods, as functions of the wrapped integer.             *)

bitor(a, rhs) == IntOr(a, rhs)

bitand(a, rhs) == IntAnd(a, rhs)

bitxor(a, rhs) == IntXor(a, rhs)

bits(a) == a

RECURSIVE OrValues(_, _)
OrValues(decl, i) ==
    IF i = 0 THEN 0 ELSE IntOr(OrValues(decl, i - 1), decl[i].value)

\* $name(0 $( | $value )*)
all == OrValues(flags, Len(flags))

empty == 0

\* $name($value)
flag(i) == flags[i].value

FromBitsSome(a) == [some |-> TRUE, value |-> a]

None == [some |-> FALSE, value |-> 0]

\* from_bits with the complement of ALL forgotten.
from_bits_unnegated(b) ==
    IF IntAnd(b, bits(all)) = 0 THEN FromBitsSome(b) ELSE None

from_bits(b) ==
    IF IntAnd(b, IntNot(bits(all))) = 0 THEN FromBitsSome(b) ELSE None

\* from_bits_truncate with the mask forgotten.
from_bits_truncate_unmasked(b) == b

from_bits_truncate(b) == bitand(b, all)

contains(a, f) == bitand(a, f) = f

is_all(a) == a = all

is_empty(a) == bits(a) = 0

intersects(a, other) == ~ is_empty(bitand(a, other))

\* insert written with ^= for |=.
insert_xor(a, other) == IntXor(a, other)

insert(a, other) == IntOr(a, other)

\* remove with the complement of the operand forgotten.
remove_and(a, other) == IntAnd(a, other)

remove(a, other) == IntAnd(a, IntNot(other))

toggle(a, other) == IntXor(a, other)

set(a, other, value) == IF value THEN insert(a, other) ELSE remove(a, other)

\* Complement over the full width of the backing type.
not_full(a) == IntNot(a)

\* Complement written with | for ^.
not_union(a) == bitor(a, all)

not(a) == bitxor(a, all)

sub(a, rhs) == remove(a, rhs)

\* extend with toggle for insert.
RECURSIVE extend_toggle(_, _)
extend_toggle(a, it) ==
    IF it = <<>> THEN a ELSE extend_toggle(toggle(a, Head(it)), Tail(it))

RECURSIVE extend(_, _)
extend(a, it) ==
    IF it = <<>> THEN a ELSE extend(insert(a, Head(it)), Tail(it))

from_iter(it) == extend(empty, it)

----------------------------------------------------------------------------
(* impl Debug: the formatter writes tokens to f, one per write_str call.   *)

\* FmtFlag without flags.remove: the working copy keeps the printed bits.
FmtFlag_no_remove(st, i) ==
    IF ~ is_empty(flag(i)) /\ contains(st.rest, flag(i))
    THEN [rest  |-> st.rest,
          first |-> FALSE,
          out   |-> Append(IF ~ st.first THEN Append(st.out, " | ") ELSE st.out,
                           flags[i].name)]
    ELSE st

\* FmtFlag without the is_empty test.
FmtFlag_no_is_empty(st, i) ==
    IF contains(st.rest, flag(i))
    THEN [rest  |-> remove(st.rest, flag(i)),
          first |-> FALSE,
          out   |-> Append(IF ~ st.first THEN Append(st.out, " | ") ELSE st.out,
                           flags[i].name)]
    ELSE st

\* One expansion of the $( if ... { ... } )* block, for the i-th flag.
FmtFlag(st, i) ==
    IF ~ is_empty(flag(i)) /\ contains(st.rest, flag(i))
    THEN [rest  |-> remove(st.rest, flag(i)),
          first |-> FALSE,
          out   |-> Append(IF ~ st.first THEN Append(st.out, " | ") ELSE st.out,
                           flags[i].name)]
    ELSE st

RECURSIVE FmtFlags(_, _)
FmtFlags(st, i) ==
    IF i > Len(flags) THEN st ELSE FmtFlags(FmtFlag(st, i), i + 1)

fmt(a) ==
    Append(FmtFlags([rest |-> a, first |-> TRUE, out |-> <<TypeName \o "(">>], 1).out,
           ")")

----------------------------------------------------------------------------
(* Inputs of the operations.                                               *)

\* The flag-set values a caller can hold before any operation: the results of
\* empty(), all(), the per-flag constructors, a successful from_bits and
\* from_bits_truncate.
Constructed ==
    {empty, all}
    \cup { flag(i) : i \in 1 .. Len(flags) }
    \cup { from_bits(x).value : x \in { y \in Inner : from_bits(y).some } }
    \cup { from_bits_truncate(x) : x \in Inner }

RECURSIVE SeqsOfLen(_, _)
SeqsOfLen(S, n) ==
    IF n = 0 THEN { <<>> }
    ELSE { Append(s, e) : s \in SeqsOfLen(S, n - 1), e \in S }

\* Every iterator of at most MaxIter flag-set values.
Iters == UNION { SeqsOfLen(Constructed, n) : n \in 0 .. MaxIter }

----------------------------------------------------------------------------
(* State.  `flags` is the declaration and `self` the one flag-set value    *)
(* the caller owns.  The other variables describe the call that has just   *)
(* been made, until the caller moves on (Return): its name `op`, the value *)
(* of `self` before it `old` (empty for an associated function, which has  *)
(* no self), its operand or raw input `arg`, the iterator it was given     *)
(* `iter`, the Option returned by from_bits `ret`, and the text written by *)
(* Debug `out`.                                                            *)

Init ==
    /\ flags \in UNION { Declarations(n) : n \in 0 .. MaxFlags }
    /\ self = empty
    /\ op = "empty"
    /\ old = empty
    /\ arg = 0
    /\ ret = None
    /\ out = <<>>
    /\ iter = <<>>

\* A call of a method on self that leaves `value` in self; operand 0 and
\* iterator <<>> when it takes none.
Call(name, value, operand, it) ==
    /\ self' = value
    /\ op' = name
    /\ old' = self
    /\ arg' = operand
    /\ iter' = it
    /\ ret' = None
    /\ out' = <<>>
    /\ UNCHANGED flags

\* A call of an associated function (no self): `value` becomes the caller's
\* value and there is no value before the call.
Construct(name, value, input, it) ==
    /\ self' = value
    /\ op' = name
    /\ old' = empty
    /\ arg' = input
    /\ iter' = it
    /\ ret' = None
    /\ out' = <<>>
    /\ UNCHANGED flags

\* The caller moves on: the value keeps no trace of the call that made it.
Return ==
    /\ op # "idle"
    /\ op' = "idle"
    /\ old' = empty
    /\ arg' = 0
    /\ iter' = <<>>
    /\ ret' = None
    /\ out' = <<>>
    /\ UNCHANGED <<flags, self>>

\* No call is in progress: the value has one owner (&mut self), so calls are
\* made one at a time.
Idle == op = "idle"

Empty == Idle /\ Construct("empty", empty, 0, <<>>)

All == Idle /\ Construct("all", all, 0, <<>>)

Flag == Idle /\ \E i \in 1 .. Len(flags) : Construct("flag", flag(i), i, <<>>)

\* let Some(v) = from_bits(x): self is replaced only when a value comes back.
FromBits ==
    /\ Idle
    /\ \E x \in Inner :
        /\ ret' = from_bits(x)
        /\ self' = IF ret'.some THEN ret'.value ELSE self
        /\ arg' = x
    /\ op' = "from_bits"
    /\ old' = empty
    /\ iter' = <<>>
    /\ out' = <<>>
    /\ UNCHANGED flags

FromBitsTruncate ==
    Idle /\ \E x \in Inner : Construct("from_bits_truncate", from_bits_truncate(x), x, <<>>)

Clear == Idle /\ Call("clear", 0, 0, <<>>)

Insert == Idle /\ \E other \in Constructed : Call("insert", insert(self, other), other, <<>>)

Remove == Idle /\ \E other \in Constructed : Call("remove", remove(self, other), other, <<>>)

Toggle == Idle /\ \E other \in Constructed : Call("toggle", toggle(self, other), other, <<>>)

Set ==
    Idle /\ \E other \in Constructed, value \in BOOLEAN :
        Call(IF value THEN "set_true" ELSE "set_false", set(self, other, value), other, <<>>)

BitOr == Idle /\ \E rhs \in Constructed : Call("bitor", bitor(self, rhs), rhs, <<>>)

BitOrAssign == Idle /\ \E rhs \in Constructed : Call("bitor_assign", IntOr(self, rhs), rhs, <<>>)

BitAnd == Idle /\ \E rhs \in Constructed : Call("bitand", bitand(self, rhs), rhs, <<>>)

BitAndAssign == Idle /\ \E rhs \in Constructed : Call("bitand_assign", IntAnd(self, rhs), rhs, <<>>)

BitXor == Idle /\ \E rhs \in Constructed : Call("bitxor", bitxor(self, rhs), rhs, <<>>)

BitXorAssign == Idle /\ \E rhs \in Constructed : Call("bitxor_assign", IntXor(self, rhs), rhs, <<>>)

Not == Idle /\ Call("not", not(self), 0, <<>>)

Sub == Idle /\ \E rhs \in Constructed : Call("sub", sub(self, rhs), rhs, <<>>)

SubAssign == Idle /\ \E rhs \in Constructed : Call("sub_assign", remove(self, rhs), rhs, <<>>)

Extend == Idle /\ \E it \in Iters : Call("extend", extend(self, it), 0, it)

FromIter == Idle /\ \E it \in Iters : Construct("from_iter", from_iter(it), 0, it)

\* format!("{:?}", self)
Fmt ==
    /\ Idle
    /\ out' = fmt(self)
    /\ op' = "fmt"
    /\ old' = self
    /\ arg' = 0
    /\ iter' = <<>>
    /\ ret' = None
    /\ UNCHANGED <<flags, self>>

Next ==
    \/ Return
    \/ Empty
    \/ All
    \/ Flag
    \/ FromBits
    \/ FromBitsTruncate
    \/ Clear
    \/ Insert
    \/ Remove
    \/ Toggle
    \/ Set
    \/ BitOr
    \/ BitOrAssign
    \/ BitAnd
    \/ BitAndAssign
    \/ BitXor
    \/ BitXorAssign
    \/ Not
    \/ Sub
    \/ SubAssign
    \/ Extend
    \/ FromIter
    \/ Fmt

Spec == Init /\ [][Next]_vars

----------------------------------------------------------------------------
(* Properties.  They are stated over sets of bit positions, not over the   *)
(* integer operations of the model.                                        *)

\* The positions, counted from k, of the bits set in n.
RECURSIVE BitsFrom(_, _)
BitsFrom(n, k) ==
    IF n = 0 THEN {}
    ELSE (IF n % 2 = 1 THEN {k} ELSE {}) \cup BitsFrom(n \div 2, k + 1)

\* The positions of the bits set in n.
BitsOf(n) == BitsFrom(n, 0)

\* ALL: the positions set in at least one declared flag value.
Universe == UNION { BitsOf(flags[i].value) : i \in 1 .. Len(flags) }

\* The values x with a bit outside ALL are exactly those with ~InUniverse(x).
InUniverse(x) == BitsOf(x) \subseteq Universe

\* The tokens of out, as a set.
Written == { out[k] : k \in 1 .. Len(out) }

\* C1: every value the program holds, however it was constructed and whatever
\* operations were applied to it, has no bit outside ALL.
Closure == InUniverse(bits(self))

\* A complement was taken in a declaration that leaves a bit of the backing
\* type undeclared, and its result is not empty.
ClosureWitness ==
    /\ op = "not"
    /\ Universe # 0 .. Width - 1
    /\ self # empty

\* C2: from_bits(x) is Some(v) with v.bits() = x exactly when x has no bit
\* outside ALL, and None, leaving no value, otherwise.
StrictConstruction ==
    op = "from_bits" =>
        /\ ret.some <=> InUniverse(arg)
        /\ ret.some => bits(ret.value) = arg /\ self = ret.value
        /\ ~ ret.some => ret = None

\* from_bits refused an input that has declared and undeclared bits.
StrictConstructionWitness ==
    /\ op = "from_bits"
    /\ ~ ret.some
    /\ BitsOf(arg) \cap Universe # {}
    /\ ~ InUniverse(arg)

\* C3: from_bits_truncate(x) has exactly the bits of x that are in ALL; it is
\* the value of from_bits(x) when that succeeds and empty() when x has only
\* undeclared bits.
TruncatingConstruction ==
    op = "from_bits_truncate" =>
        /\ BitsOf(bits(self)) = BitsOf(arg) \cap Universe
        /\ from_bits(arg).some => self = from_bits(arg).value
        /\ BitsOf(arg) \cap Universe = {} => self = empty

\* from_bits_truncate dropped some bits of its input and kept others.
TruncatingConstructionWitness ==
    /\ op = "from_bits_truncate"
    /\ self # empty
    /\ self # arg

----------------------------------------------------------------------------
(* Debug.                                                                  *)

\* The flags selected by scanning the declaration from flag i with the working
\* copy w: a flag is selected when its bits are non-zero and all in w, and its
\* bits then leave w.
RECURSIVE Selected(_, _)
Selected(i, w) ==
    IF i > Len(flags) THEN <<>>
    ELSE IF flags[i].value # 0 /\ BitsOf(flags[i].value) \subseteq BitsOf(w)
         THEN <<i>> \o Selected(i + 1, w - flags[i].value)
         ELSE Selected(i + 1, w)

\* The names of the flags idx, joined by " | ".
RECURSIVE Joined(_)
Joined(idx) ==
    IF idx = <<>> THEN <<>>
    ELSE IF Len(idx) = 1 THEN <<flags[idx[1]].name>>
    ELSE <<flags[idx[1]].name, " | ">> \o Joined(Tail(idx))

\* The declared flags whose name is in out.
PrintedFlags == { i \in 1 .. Len(flags) : flags[i].name \in Written }

\* The position in out of the name of flag i.
PositionOf(i) == CHOOSE k \in 1 .. Len(out) : out[k] = flags[i].name

DebugShowsContained ==
    op = "fmt" =>
        PrintedFlags =
            { i \in 1 .. Len(flags) : ~ is_empty(flag(i)) /\ contains(self, flag(i)) }

\* C6: a flag declared with value zero is contained in every value, is empty,
\* and is never named by Debug; Debug of the empty value is TypeName().
ZeroFlagTransparency ==
    /\ \A i \in 1 .. Len(flags) :
          flags[i].value = 0 =>
              /\ contains(self, flag(i))
              /\ is_empty(flag(i))
              /\ op = "fmt" => flags[i].name \notin Written
    /\ op = "fmt" /\ self = empty => out = <<"Foo(", ")">>

\* Debug printed a flag declared after a zero flag, and not the zero flag.
ZeroFlagTransparencyWitness ==
    /\ op = "fmt"
    /\ \E i, j \in 1 .. Len(flags) :
          /\ i < j
          /\ flags[i].value = 0
          /\ j \in PrintedFlags

----------------------------------------------------------------------------
(* Set algebra.                                                            *)

\* C7: complementing twice gives the value back, and the complement of a
\* union is the intersection of the complements.
ComplementLaws ==
    op = "not" =>
        /\ not(self) = old
        /\ \A b \in Constructed : not(bitor(old, b)) = bitand(self, not(b))

\* A value that is neither empty nor all was complemented.
ComplementLawsWitness ==
    /\ op = "not"
    /\ old # empty
    /\ self # empty

\* C8: a second insert(f) changes nothing, and remove(f) undoes insert(f) when
\* no bit of f was set before.
InsertRemove ==
    op = "insert" =>
        /\ insert(self, arg) = self
        /\ BitsOf(old) \cap BitsOf(arg) = {} => remove(self, arg) = old

\* Flags were inserted into a non-empty value that had none of them.
InsertRemoveWitness ==
    /\ op = "insert"
    /\ arg # empty
    /\ old # empty
    /\ BitsOf(old) \cap BitsOf(arg) = {}

\* The iterator it, its elements rearranged by p.
Permuted(it, p) == [k \in 1 .. Len(it) |-> it[p[k]]]

\* Every arrangement of the positions in S, each taken once.
RECURSIVE Arrangements(_)
Arrangements(S) ==
    IF S = {} THEN { <<>> }
    ELSE UNION { { <<k>> \o p : p \in Arrangements(S \ {k}) } : k \in S }

\* C9: from_iter gives the OR of the elements (empty() for none) and extend
\* gives self OR-ed with the elements, in whatever order the elements come;
\* extend clears no bit.
AggregateConstruction ==
    op \in {"from_iter", "extend"} =>
        LET start == IF op = "extend" THEN old ELSE empty
        IN  /\ BitsOf(bits(self)) =
                  BitsOf(start) \cup UNION { BitsOf(iter[k]) : k \in 1 .. Len(iter) }
            /\ \A p \in Arrangements(1 .. Len(iter)) :
                  IF op = "extend"
                  THEN extend(old, Permuted(iter, p)) = self
                  ELSE from_iter(Permuted(iter, p)) = self
            /\ op = "extend" => BitsOf(old) \subseteq BitsOf(self)

\* A value was extended with two different non-empty elements that added a
\* bit to it, and had a bit that the first of them has not.
AggregateConstructionWitness ==
    /\ op = "extend"
    /\ Len(iter) >= 2
    /\ iter[1] # iter[2]
    /\ iter[1] # empty
    /\ iter[2] # empty
    /\ self # old
    /\ ~ (BitsOf(old) \subseteq BitsOf(iter[1]))

\* C10: a - b is a & !b; !a is all() - a and has exactly the bits of ALL that
\* a has not; so a | !a is all() and a & !a is empty().
DifferenceComplement ==
    /\ op = "sub" => self = bitand(old, not(arg))
    /\ op = "not" =>
          /\ self = sub(all, old)
          /\ BitsOf(bits(self)) = Universe \ BitsOf(bits(old))
          /\ bitor(old, self) = all
          /\ bitand(old, self) = empty

\* A difference removed some flags, in a declaration that leaves a bit of the
\* backing type undeclared.
DifferenceComplementWitness ==
    /\ op = "sub"
    /\ Universe # 0 .. Width - 1
    /\ self # old

====
